---- MODULE Spec2Model ----
(***************************************************************************)
(* A model of beambending/beam.py: the Beam class, its span and support    *)
(* setters, add_loads, get_reaction_forces and the derived piecewise       *)
(* functions built by _update_loads.                                       *)
(*                                                                         *)
(* Numbers are exact rationals <<n, d>> (d > 0, lowest terms): the code    *)
(* computes with sympy rationals and numpy doubles; rounding is not        *)
(* modelled.  sympy.integrate and numpy.linalg.inv are modelled by what    *)
(* they compute (the definite integral, the inverse or LinAlgError for a   *)
(* singular matrix).  Distributed loads carry a constant expression.       *)
(***************************************************************************)
EXTENDS Integers, Sequences, FiniteSets, TLC

VARIABLES _x0, _x1, _fixed_support, _rolling_support,
          _loads, _distributed_forces, _shear_forces, _bending_moments,
          lastOp, arg, raised, ret, clean

beam == <<_x0, _x1, _fixed_support, _rolling_support,
          _loads, _distributed_forces, _shear_forces, _bending_moments>>
vars == <<_x0, _x1, _fixed_support, _rolling_support,
          _loads, _distributed_forces, _shear_forces, _bending_moments,
          lastOp, arg, raised, ret, clean>>

(***************************************************************************)
(* Bounds and inputs                                                       *)
(***************************************************************************)
\* Longest load list a beam holds; a batch never makes the list longer.
MaxLoads == 2
\* Largest coordinate at which a distributed-force function is evaluated.
MaxCoord == 8

\* Arguments of Beam(span), and of the length setter.
SpanArgs == <<9, 7, 0>>
SpanInputs == {SpanArgs[i] : i \in 1..Len(SpanArgs)}
\* Arguments of the fixed_support and rolling_support setters.
CoordInputs == {-1, 0, 7, 10}

PointLoad(force, coord) == [kind |-> "PointLoad", force |-> force, coord |-> coord]
DistributedLoad(expr, span) == [kind |-> "DistributedLoad", expr |-> expr, span |-> span]
\* Objects of classes beam.py does not define.
PointTorque(magnitude, coord) == [kind |-> "PointTorque", magnitude |-> magnitude, coord |-> coord]
OtherObject == [kind |-> "str"]

\* Entries a list passed to add_loads is drawn from.
LoadInputs == { PointLoad(-20, 3), DistributedLoad(3, <<2, 6>>),
                PointTorque(231, 3), OtherObject }

Batches == UNION { [1..n -> LoadInputs] : n \in 0..MaxLoads }

(***************************************************************************)
(* Exact rational arithmetic                                               *)
(***************************************************************************)
Abs(n) == IF n < 0 THEN -n ELSE n

RECURSIVE Gcd(_, _)
Gcd(a, b) == IF b = 0 THEN a ELSE Gcd(b, a % b)

RNorm(r) ==
    LET n == r[1]
        d == r[2]
        g == Gcd(Abs(n), Abs(d))
        s == IF d < 0 THEN -1 ELSE 1
    IN  IF n = 0 THEN <<0, 1>> ELSE <<(s * n) \div g, (s * d) \div g>>

Rat(n) == <<n, 1>>
RAdd(p, q) == RNorm(<<p[1] * q[2] + q[1] * p[2], p[2] * q[2]>>)
RNeg(p) == <<-p[1], p[2]>>
RMul(p, q) == RNorm(<<p[1] * q[1], p[2] * q[2]>>)

RECURSIVE RSum(_)
RSum(s) == IF s = <<>> THEN Rat(0) ELSE RAdd(Head(s), RSum(Tail(s)))

Max2(a, b) == IF a > b THEN a ELSE b
Min2(a, b) == IF a < b THEN a ELSE b

(***************************************************************************)
(* Beam.__init__                                                           *)
(***************************************************************************)
BeamInit(span) ==
    /\ _x0 = 0
    /\ _x1 = span
    /\ _fixed_support = 2
    /\ _rolling_support = 8
    /\ _loads = <<>>
    /\ _distributed_forces = <<>>
    /\ _shear_forces = <<>>
    /\ _bending_moments = <<>>

Init ==
    /\ \E i \in 1..Len(SpanArgs) : BeamInit(SpanArgs[i])
    /\ lastOp = "init"
    /\ arg = <<>>
    /\ raised = "none"
    /\ ret = <<>>
    /\ clean = TRUE

(***************************************************************************)
(* Property setters                                                        *)
(***************************************************************************)
\* The condition of the length setter.
LengthOk(length) == length > 0

SetLength(length) ==
    /\ lastOp' = "length"
    /\ arg' = <<length>>
    /\ ret' = <<>>
    /\ IF LengthOk(length)
         THEN /\ _x1' = _x0 + length
              /\ raised' = "none"
              /\ clean' = clean
         ELSE /\ _x1' = _x1
              /\ raised' = "ValueError"
              /\ clean' = FALSE
    /\ UNCHANGED <<_x0, _fixed_support, _rolling_support, _loads,
                   _distributed_forces, _shear_forces, _bending_moments>>

\* A setter that refused the end points of the span.
WithinSpanOpen(x_coord) == _x0 < x_coord /\ x_coord < _x1

\* The condition of both support setters: self._x0 <= x_coord <= self._x1.
WithinSpan(x_coord) == _x0 <= x_coord /\ x_coord <= _x1

SetFixedSupport(x_coord) ==
    /\ lastOp' = "fixed_support"
    /\ arg' = <<x_coord>>
    /\ ret' = <<>>
    /\ IF WithinSpan(x_coord)
         THEN /\ _fixed_support' = x_coord
              /\ raised' = "none"
              /\ clean' = clean
         ELSE /\ _fixed_support' = _fixed_support
              /\ raised' = "ValueError"
              /\ clean' = FALSE
    /\ UNCHANGED <<_x0, _x1, _rolling_support, _loads,
                   _distributed_forces, _shear_forces, _bending_moments>>

SetRollingSupport(x_coord) ==
    /\ lastOp' = "rolling_support"
    /\ arg' = <<x_coord>>
    /\ ret' = <<>>
    /\ IF WithinSpan(x_coord)
         THEN /\ _rolling_support' = x_coord
              /\ raised' = "none"
              /\ clean' = clean
         ELSE /\ _rolling_support' = _rolling_support
              /\ raised' = "ValueError"
              /\ clean' = FALSE
    /\ UNCHANGED <<_x0, _x1, _fixed_support, _loads,
                   _distributed_forces, _shear_forces, _bending_moments>>

(***************************************************************************)
(* Piecewise functions of the position x                                   *)
(*                                                                         *)
(* A sympy.Piecewise is its ordered sequence of pieces (cond, value), the  *)
(* first piece whose condition holds giving the value.  A stored function  *)
(* is [order, f, a]: the piecewise f itself (order 0), its running         *)
(* integral integrate(f, (x, a, x)) (order 1), or the running integral     *)
(* from a of that (order 2).  Functions are evaluated at x >= a.           *)
(***************************************************************************)
Lt(c) == [op |-> "<", bound |-> c]
Gt(c) == [op |-> ">", bound |-> c]
Le(c) == [op |-> "<=", bound |-> c]
Ge(c) == [op |-> ">=", bound |-> c]
Otherwise == [op |-> "True", bound |-> 0]
Piece(value, cond) == [value |-> value, cond |-> cond]

CondHolds(cond, x) ==
    CASE cond.op = "<" -> x < cond.bound
      [] cond.op = "<=" -> x <= cond.bound
      [] cond.op = ">" -> x > cond.bound
      [] cond.op = ">=" -> x >= cond.bound
      [] OTHER -> TRUE

RECURSIVE PiecewiseAt(_, _)
PiecewiseAt(pw, x) ==
    IF pw = <<>> THEN Rat(0)
    ELSE IF CondHolds(Head(pw).cond, x) THEN Head(pw).value
    ELSE PiecewiseAt(Tail(pw), x)

\* The intervals <<p, q, value>> on which the pieces of pw apply inside
\* [lo, hi]: each piece takes what the pieces before it left uncovered.
RECURSIVE Intervals(_, _, _)
Intervals(pw, lo, hi) ==
    IF pw = <<>> \/ lo >= hi THEN <<>>
    ELSE LET c == Head(pw).cond
             v == Head(pw).value
         IN  CASE c.op \in {"<", "<="} ->
                    LET q == Min2(Max2(c.bound, lo), hi)
                    IN  (IF q > lo THEN << <<lo, q, v>> >> ELSE <<>>)
                        \o Intervals(Tail(pw), q, hi)
               [] c.op \in {">", ">="} ->
                    LET p == Max2(Min2(c.bound, hi), lo)
                    IN  (IF hi > p THEN << <<p, hi, v>> >> ELSE <<>>)
                        \o Intervals(Tail(pw), lo, p)
               [] OTHER -> << <<lo, hi, v>> >>

\* integrate(f, (x, a, b)) for a piecewise-constant f.
IntegrateUp(pw, a, b) ==
    LET iv == Intervals(pw, a, b)
    IN  RSum([i \in 1..Len(iv) |-> RMul(iv[i][3], Rat(iv[i][2] - iv[i][1]))])

integrate(pw, a, b) ==
    IF a <= b THEN IntegrateUp(pw, a, b) ELSE RNeg(IntegrateUp(pw, b, a))

\* integrate(f * x, (x, a, b)) for a piecewise-constant f, a <= b.
integrate_times_x(pw, a, b) ==
    LET iv == Intervals(pw, a, b)
    IN  RSum([i \in 1..Len(iv) |->
              RMul(iv[i][3], <<iv[i][2] * iv[i][2] - iv[i][1] * iv[i][1], 2>>)])

\* The integral from p to t of clamp(s - p, 0, q - p) ds, for t >= p.
Ramp(p, q, t) ==
    IF t <= q THEN <<(t - p) * (t - p), 2>>
    ELSE RAdd(<<(q - p) * (q - p), 2>>, Rat((q - p) * (t - q)))

\* integrate(integrate(f, (x, a, x)), (x, a, x)) at x = b, for a <= b.
integrate_twice(pw, a, b) ==
    LET iv == Intervals(pw, a, b)
    IN  RSum([i \in 1..Len(iv) |->
              RMul(iv[i][3], RNorm(Ramp(iv[i][1], iv[i][2], b)))])

Func(order, f, a) == [order |-> order, f |-> f, a |-> a]

\* integrate(g, (x, a, x)) of a stored function g.
running_integral(g, a) == Func(g.order + 1, g.f, a)

FuncAt(g, x) ==
    CASE g.order = 0 -> PiecewiseAt(g.f, x)
      [] g.order = 1 -> integrate(g.f, g.a, x)
      [] OTHER -> integrate_twice(g.f, g.a, x)

\* sum(functions) evaluated at x, as plot() sums the stored lists.
TotalAt(funcs, x) == RSum([i \in 1..Len(funcs) |-> FuncAt(funcs[i], x)])

(***************************************************************************)
(* Beam._create_distributed_force, Beam._shear_from_pointload              *)
(***************************************************************************)
\* A builder whose load stopped short of its right end point.
_create_distributed_force_open(load) ==
    << Piece(Rat(0), Lt(load.span[1])),
       Piece(Rat(0), Ge(load.span[2])),
       Piece(Rat(load.expr), Otherwise) >>

\* expr.subs(x, x - x0) is computed and dropped: the expression is unshifted.
_create_distributed_force(load) ==
    << Piece(Rat(0), Lt(load.span[1])),
       Piece(Rat(0), Gt(load.span[2])),
       Piece(Rat(load.expr), Otherwise) >>

\* A step that rose only above the coordinate of the load.
_shear_from_pointload_above(load) ==
    << Piece(Rat(0), Le(load[2])), Piece(load[1], Otherwise) >>

\* load is <<value, coord>>, value a rational.
_shear_from_pointload(load) ==
    << Piece(Rat(0), Lt(load[2])), Piece(load[1], Otherwise) >>

_point_loads(loads) == SelectSeq(loads, LAMBDA f : f.kind = "PointLoad")
_distributed_loads(loads) == SelectSeq(loads, LAMBDA f : f.kind = "DistributedLoad")

(***************************************************************************)
(* Beam.get_reaction_forces                                                *)
(***************************************************************************)
Column(M, j) == <<M[1][j], M[2][j], M[3][j]>>
Transpose(M) == <<Column(M, 1), Column(M, 2), Column(M, 3)>>

Rest(i) == CASE i = 1 -> <<2, 3>> [] i = 2 -> <<1, 3>> [] OTHER -> <<1, 2>>

Cofactor(M, i, j) ==
    LET r == Rest(i)
        c == Rest(j)
        minor == M[r[1]][c[1]] * M[r[2]][c[2]] - M[r[1]][c[2]] * M[r[2]][c[1]]
    IN  IF (i + j) % 2 = 0 THEN minor ELSE -minor

Det(M) == M[1][1] * Cofactor(M, 1, 1) + M[1][2] * Cofactor(M, 1, 2)
          + M[1][3] * Cofactor(M, 1, 3)

ZeroMatrix == << <<Rat(0), Rat(0), Rat(0)>>, <<Rat(0), Rat(0), Rat(0)>>,
                <<Rat(0), Rat(0), Rat(0)>> >>

\* An inverse that answered a singular matrix with zeros instead of raising.
linalg_inv_no_raise(M) ==
    [raised |-> "none",
     value |-> IF Det(M) = 0 THEN ZeroMatrix
               ELSE LET d == Det(M)
                        row(i) == << RNorm(<<Cofactor(M, 1, i), d>>),
                                     RNorm(<<Cofactor(M, 2, i), d>>),
                                     RNorm(<<Cofactor(M, 3, i), d>>) >>
                    IN  <<row(1), row(2), row(3)>>]

\* numpy.linalg.inv: LinAlgError for a singular matrix, else the inverse.
linalg_inv(M) ==
    IF Det(M) = 0
    THEN [raised |-> "LinAlgError", value |-> <<>>]
    ELSE [raised |-> "none",
          value |-> LET d == Det(M)
                        row(i) == << RNorm(<<Cofactor(M, 1, i), d>>),
                                     RNorm(<<Cofactor(M, 2, i), d>>),
                                     RNorm(<<Cofactor(M, 3, i), d>>) >>
                    IN  <<row(1), row(2), row(3)>>]

\* M.dot(b): M a matrix of rationals, b a vector of rationals.
RowDot(r, b) == RAdd(RAdd(RMul(r[1], b[1]), RMul(r[2], b[2])), RMul(r[3], b[3]))
Dot(M, b) == <<RowDot(M[1], b), RowDot(M[2], b), RowDot(M[3], b)>>

\* The body of get_reaction_forces on the given load list and cached
\* distributed forces: [raised, value], value = <<F_Ax, F_Ay, F_By>>.
get_reaction_forces(loads, distributed_forces) ==
    LET x0 == _x0
        x1 == _x1
        xA == _fixed_support
        xB == _rolling_support
        pl == _point_loads(loads)
        F_Rx == Rat(0)
        F_Ry == RAdd(RSum([i \in 1..Len(distributed_forces) |->
                             integrate(distributed_forces[i], x0, x1)]),
                     RSum([i \in 1..Len(pl) |-> Rat(pl[i].force)]))
        M_R == RAdd(RSum([i \in 1..Len(distributed_forces) |->
                            integrate_times_x(distributed_forces[i], x0, x1)]),
                    RSum([i \in 1..Len(pl) |-> Rat(pl[i].force * pl[i].coord)]))
        A == Transpose(<< <<-1, 0, 0>>, <<0, -1, -xA>>, <<0, -1, -xB>> >>)
        b == <<F_Rx, F_Ry, M_R>>
        inv == linalg_inv(A)
    IN  IF inv.raised # "none"
        THEN [raised |-> inv.raised, value |-> <<>>]
        ELSE [raised |-> "none", value |-> Dot(inv.value, b)]

GetReactionForces ==
    /\ lastOp' = "get_reaction_forces"
    /\ arg' = <<>>
    /\ \E r \in {get_reaction_forces(_loads, _distributed_forces)} :
        /\ raised' = r.raised
        /\ ret' = r.value
    /\ clean' = clean
    /\ UNCHANGED beam

(***************************************************************************)
(* Beam._update_loads, Beam.add_loads                                      *)
(***************************************************************************)
RECURSIVE CreateAll(_)
CreateAll(dl) ==
    IF dl = <<>> THEN <<>>
    ELSE <<_create_distributed_force(Head(dl))>> \o CreateAll(Tail(dl))

\* [integrate(load, (x, x0, x)) for load in self._distributed_forces]
RECURSIVE ShearFromDistributed(_, _)
ShearFromDistributed(dfs, x0) ==
    IF dfs = <<>> THEN <<>>
    ELSE <<running_integral(Func(0, Head(dfs), x0), x0)>>
         \o ShearFromDistributed(Tail(dfs), x0)

\* self._shear_from_pointload(f) for f in self._point_loads()
RECURSIVE ShearFromPointLoads(_, _)
ShearFromPointLoads(pl, x0) ==
    IF pl = <<>> THEN <<>>
    ELSE <<Func(0, _shear_from_pointload(<<Rat(Head(pl).force), Head(pl).coord>>), x0)>>
         \o ShearFromPointLoads(Tail(pl), x0)

\* [integrate(load, (x, x0, x)) for load in self._shear_forces]
RECURSIVE IntegrateAll(_, _)
IntegrateAll(fs, x0) ==
    IF fs = <<>> THEN <<>>
    ELSE <<running_integral(Head(fs), x0)>> \o IntegrateAll(Tail(fs), x0)

\* The list _update_loads builds in self._shear_forces, reactions being
\* the value <<F_Ax, F_Ay, F_By>> get_reaction_forces returned.
ShearForces(loads, distributed_forces, reactions) ==
    ShearFromDistributed(distributed_forces, _x0)
    \o ShearFromPointLoads(_point_loads(loads), _x0)
    \o << Func(0, _shear_from_pointload(<<reactions[2], _fixed_support>>), _x0) >>
    \o << Func(0, _shear_from_pointload(<<reactions[3], _rolling_support>>), _x0) >>

\* The body of _update_loads on the load list loads, statement by statement:
\* a LinAlgError of get_reaction_forces leaves _distributed_forces replaced
\* and the shear and moment lists as they were.
_update_loads(loads) ==
    \E distributed_forces \in {CreateAll(_distributed_loads(loads))} :
    \E reactions \in {get_reaction_forces(loads, distributed_forces)} :
        /\ _distributed_forces' = distributed_forces
        /\ raised' = reactions.raised
        /\ IF reactions.raised # "none"
             THEN UNCHANGED <<_shear_forces, _bending_moments>>
             ELSE \E shear_forces \in
                        {ShearForces(loads, distributed_forces, reactions.value)} :
                  /\ _shear_forces' = shear_forces
                  /\ _bending_moments' = IntegrateAll(shear_forces, _x0)

\* isinstance(load, (DistributedLoad, PointLoad))
IsLoad(load) == load.kind \in {"DistributedLoad", "PointLoad"}

\* The loop of add_loads: each entry is appended as it is reached, and the
\* first entry that is no load raises.
RECURSIVE AppendLoop(_, _)
AppendLoop(loads, batch) ==
    IF batch = <<>> THEN [raised |-> "none", loads |-> loads]
    ELSE IF IsLoad(Head(batch))
         THEN AppendLoop(Append(loads, Head(batch)), Tail(batch))
         ELSE [raised |-> "TypeError", loads |-> loads]

AddLoads(batch) ==
    /\ Len(_loads) + Len(batch) <= MaxLoads
    /\ lastOp' = "add_loads"
    /\ arg' = batch
    /\ ret' = <<>>
    /\ \E looped \in {AppendLoop(_loads, batch)} :
        /\ _loads' = looped.loads
        /\ IF looped.raised # "none"
             THEN /\ raised' = looped.raised
                  /\ UNCHANGED <<_distributed_forces, _shear_forces, _bending_moments>>
             ELSE _update_loads(looped.loads)
    /\ clean' = (clean /\ raised' = "none")
    /\ UNCHANGED <<_x0, _x1, _fixed_support, _rolling_support>>

Next ==
    \/ \E length \in SpanInputs : SetLength(length)
    \/ \E x_coord \in CoordInputs : SetFixedSupport(x_coord)
    \/ \E x_coord \in CoordInputs : SetRollingSupport(x_coord)
    \/ \E batch \in Batches : AddLoads(batch)
    \/ GetReactionForces

Spec == Init /\ [][Next]_vars

(***************************************************************************)
(* The position function of a distributed load, on its own: a beam of the  *)
(* default span builds the function for a load and evaluates it at x.      *)
(***************************************************************************)
Intensities == {-2, 3}

\* arg is the input <<w, left, right, x>>.
InitForce ==
    /\ BeamInit(10)
    /\ lastOp = "init"
    /\ arg \in Intensities \X (0..MaxCoord) \X (0..MaxCoord) \X (0..MaxCoord)
    /\ raised = "none"
    /\ ret = <<>>
    /\ clean = TRUE

\* ret becomes the value at x of the function built for the load.
EvalDistributedForce ==
    /\ lastOp = "init"
    /\ lastOp' = "_create_distributed_force"
    /\ ret' = <<PiecewiseAt(_create_distributed_force(
                                DistributedLoad(arg[1], <<arg[2], arg[3]>>)), arg[4])>>
    /\ UNCHANGED <<arg, raised, clean>>
    /\ UNCHANGED beam

NextForce == EvalDistributedForce

SpecForce == InitForce /\ [][NextForce]_vars

(***************************************************************************)
(* What the claims speak of, computed from the load list itself            *)
(***************************************************************************)
Mutations == {"add_loads", "fixed_support", "rolling_support", "length"}

\* The positions at which the functions of a beam are compared.
Positions == _x0.._x1

\* The intensity of the distributed load on the open cell (k, k+1).
CellIntensity(load, k) ==
    IF load.span[1] <= k /\ k + 1 <= load.span[2] THEN load.expr ELSE 0

\* The integral over [a, b], a <= b, of the net intensity of the distributed
\* loads of loads, cell by cell.
NetLoadIntegral(loads, a, b) ==
    LET dl == _distributed_loads(loads)
        cell(k) == RSum([i \in 1..Len(dl) |-> Rat(CellIntensity(dl[i], k))])
    IN  RSum([n \in 1..(b - a) |-> cell(a + n - 1)])

\* The integral over [a, b] of intensity * x, cell by cell.
NetLoadMoment(loads, a, b) ==
    LET dl == _distributed_loads(loads)
        cell(k) == RSum([i \in 1..Len(dl) |->
                           RNorm(<<CellIntensity(dl[i], k) * (2 * k + 1), 2>>)])
    IN  RSum([n \in 1..(b - a) |-> cell(a + n - 1)])

\* F_Ry and M_R of the applied loads.
AppliedForce(loads) ==
    LET pl == _point_loads(loads)
    IN  RAdd(NetLoadIntegral(loads, _x0, _x1),
             RSum([i \in 1..Len(pl) |-> Rat(pl[i].force)]))

AppliedMoment(loads) ==
    LET pl == _point_loads(loads)
    IN  RAdd(NetLoadMoment(loads, _x0, _x1),
             RSum([i \in 1..Len(pl) |-> Rat(pl[i].force * pl[i].coord)]))

\* The concentrated forces with coordinate <= x: point loads and reactions.
ForcesUpTo(loads, reactions, x) ==
    LET pl == _point_loads(loads)
    IN  RAdd(RSum([i \in 1..Len(pl) |->
                     IF pl[i].coord <= x THEN Rat(pl[i].force) ELSE Rat(0)]),
             RAdd(IF _fixed_support <= x THEN reactions[2] ELSE Rat(0),
                  IF _rolling_support <= x THEN reactions[3] ELSE Rat(0)))

RECURSIVE SumPiecewiseAt(_, _)
SumPiecewiseAt(pws, x) ==
    IF pws = <<>> THEN Rat(0)
    ELSE RAdd(PiecewiseAt(Head(pws), x), SumPiecewiseAt(Tail(pws), x))

\* The stored functions agree, at every position of the span, with those
\* _update_loads would build now (where the reactions can be solved).
Fresh ==
    LET distributed_forces == CreateAll(_distributed_loads(_loads))
        reactions == get_reaction_forces(_loads, distributed_forces)
        shear_forces == ShearForces(_loads, distributed_forces, reactions.value)
        bending_moments == IntegrateAll(shear_forces, _x0)
    IN  \A x \in Positions :
          /\ SumPiecewiseAt(_distributed_forces, x) = SumPiecewiseAt(distributed_forces, x)
          /\ reactions.raised = "none" =>
               /\ TotalAt(_shear_forces, x) = TotalAt(shear_forces, x)
               /\ TotalAt(_bending_moments, x) = TotalAt(bending_moments, x)

LoadWithinSpan(load) ==
    IF load.kind = "PointLoad"
    THEN _x0 <= load.coord /\ load.coord <= _x1
    ELSE _x0 <= load.span[1] /\ load.span[2] <= _x1

(***************************************************************************)
(* Claims                                                                  *)
(***************************************************************************)

\* C1: a failing add_loads leaves the load list and the distributed-force,
\* shear-force and bending-moment functions exactly as they were.
C1_AddLoadsAtomic ==
    [][(lastOp' = "add_loads" /\ raised' # "none") =>
         UNCHANGED <<_loads, _distributed_forces, _shear_forces, _bending_moments>>]_vars

\* C2: after successful mutations only, the stored distributed-force, shear
\* and moment functions equal those recomputed from the current loads, span
\* and supports.
C2_DerivedNeverStale ==
    (clean /\ lastOp \in Mutations /\ raised = "none") => Fresh

\* C3: in every reachable state x0 < x1 and both supports lie in [x0, x1].
C3_SpanInvariant ==
    /\ _x0 < _x1
    /\ _x0 <= _fixed_support /\ _fixed_support <= _x1
    /\ _x0 <= _rolling_support /\ _rolling_support <= _x1

\* C4: with distinct supports get_reaction_forces returns (F_Ax, F_Ay, F_By)
\* with F_Ax = 0, F_Ay + F_By = -F_Ry and F_Ay*xA + F_By*xB = -M_R, F_Ry and
\* M_R being the resultant force and moment of the applied loads.
C4_ReactionsBalance ==
    (lastOp = "get_reaction_forces" /\ _fixed_support # _rolling_support) =>
        /\ raised = "none"
        /\ Len(ret) = 3
        /\ ret[1] = Rat(0)
        /\ RAdd(ret[2], ret[3]) = RNeg(AppliedForce(_loads))
        /\ RAdd(RMul(ret[2], Rat(_fixed_support)), RMul(ret[3], Rat(_rolling_support)))
             = RNeg(AppliedMoment(_loads))

\* C5: assigning c to fixed_support or rolling_support succeeds exactly when
\* x0 <= c <= x1, and the support is then c; otherwise it raises and leaves
\* the whole beam unchanged.
C5_SupportSetter ==
    [][(lastOp' \in {"fixed_support", "rolling_support"}) =>
         IF _x0 <= arg'[1] /\ arg'[1] <= _x1
         THEN /\ raised' = "none"
              /\ lastOp' = "fixed_support" => _fixed_support' = arg'[1]
              /\ lastOp' = "rolling_support" => _rolling_support' = arg'[1]
         ELSE /\ raised' = "ValueError"
              /\ UNCHANGED beam]_vars

\* A support was assigned the end point x1 of a proper span, and took it.
C5_Witness ==
    /\ lastOp = "rolling_support"
    /\ raised = "none"
    /\ _x0 < _x1
    /\ arg = <<_x1>>
    /\ _rolling_support = _x1

C7_AddLoadsAcceptsTorque ==
    [][(lastOp' = "add_loads") =>
         IF \A i \in 1..Len(arg') :
               arg'[i].kind \in {"PointLoad", "DistributedLoad", "PointTorque"}
         THEN raised' # "TypeError" /\ _loads' = _loads \o arg'
         ELSE raised' = "TypeError"]_vars

\* C8: the function built for intensity w over [left, right] is w at every x
\* with left <= x <= right and 0 at every x < left and x > right.
C8_DistributedForceValue ==
    (lastOp = "_create_distributed_force") =>
        ret = << IF arg[2] <= arg[4] /\ arg[4] <= arg[3] THEN Rat(arg[1]) ELSE Rat(0) >>

\* Intensity 3 over [2, 6], evaluated at the right end point 6.
C8_Witness ==
    /\ lastOp = "_create_distributed_force"
    /\ arg = <<3, 2, 6, 6>>
    /\ ret = <<Rat(3)>>

\* C9: after a successful add_loads the total shear force at each x of the
\* span is the integral from x0 to x of the net distributed load plus the
\* forces of the point loads and of the two reactions with coordinate <= x.
C9_ShearForce ==
    (lastOp = "add_loads" /\ raised = "none") =>
        \A x \in Positions :
            TotalAt(_shear_forces, x)
              = RAdd(NetLoadIntegral(_loads, _x0, x),
                     ForcesUpTo(_loads,
                                get_reaction_forces(_loads, _distributed_forces).value, x))

\* A point load and a distributed load were added to a beam of span 9 and
\* the shear force at the point load is not zero.
C9_Witness ==
    /\ lastOp = "add_loads"
    /\ raised = "none"
    /\ _x1 = 9
    /\ Len(_point_loads(_loads)) = 1
    /\ Len(_distributed_loads(_loads)) = 1
    /\ TotalAt(_shear_forces, 3) # Rat(0)

\* C10: after a successful add_loads with distinct supports and every load
\* within the span, the shear force and the bending moment vanish at x1.
C10_EquilibriumClosure ==
    (/\ lastOp = "add_loads"
     /\ raised = "none"
     /\ _fixed_support # _rolling_support
     /\ \A i \in 1..Len(_loads) : LoadWithinSpan(_loads[i])) =>
        /\ TotalAt(_shear_forces, _x1) = Rat(0)
        /\ TotalAt(_bending_moments, _x1) = Rat(0)

====
